---- MODULE Spec2Model ----
(***************************************************************************)
(* Model of the emotion-to-playlist recommendation engine                  *)
(* (src/recommendation.py, class MusicRecommender).                        *)
(*                                                                         *)
(* Python dicts are TLA+ records whose DOMAIN is the set of keys, so a     *)
(* missing key stays missing.  A dict-valued or list-valued field that is  *)
(* None is modelled as a missing key (the code reads both through          *)
(* `x.get(k) or {}`); a string-valued field that is None holds None.       *)
(* One call of get_recommended_playlists is one action; the provider's     *)
(* answers to the requests of that call are the input `oracle`.            *)
(*                                                                         *)
(* The webcam handler (src/camera.py, class CameraHandler) is the second   *)
(* object of the model; its operations are the actions of CameraSpec.      *)
(* The dashboard (src/app.py) is modelled in three parts: the mood history *)
(* (HistorySpec), the camera loop (LoopSpec) and the feedback file shared   *)
(* by the sessions (FeedbackSpec).                                         *)
(***************************************************************************)
EXTENDS Integers, Sequences, FiniteSets, TLC

VARIABLES
    emotion_to_genre,               \* self.emotion_to_genre
    default_playlists,              \* self.default_playlists
    default_playlists_by_language,  \* self.default_playlists_by_language
    spotify_client,                 \* self.spotify_client
    spotify_configured,             \* self.spotify_configured
    pc,                             \* "idle" | "returned": a caller holds a result
    call,                           \* the operation last called and its arguments
    out,                            \* what that operation returned
    prev,                           \* the call before it and its result, when repeated
    cap,                            \* CameraHandler: self.cap
    is_running,                     \* CameraHandler: self.is_running
    webcams,                        \* the device indices a capture can open now
    mood_history,                   \* st.session_state.mood_history
    recorded,                       \* the number of update_mood_history calls so far
    last_detection_time,            \* st.session_state.last_detection_time
    last_attempt,                   \* when detect_emotion was last called in the loop
    now,                            \* the clock, in tenths of a second
    faces,                          \* what the detector reads off the user, repeating
    feedback_file,                  \* the content of user_feedback.json
    user_feedback,                  \* st.session_state.user_feedback of each session
    session_pc,                     \* where each session is in handling a click
    click,                          \* the click each session is handling
    handled                         \* the clicks handled so far, per playlist and kind

vars == <<emotion_to_genre, default_playlists, default_playlists_by_language,
          spotify_client, spotify_configured, pc, call, out, prev,
          cap, is_running, webcams,
          mood_history, recorded, last_detection_time, last_attempt, now, faces,
          feedback_file, user_feedback, session_pc, click, handled>>

\* the session state of one dashboard session around emotion detection
session == <<mood_history, recorded, last_detection_time, last_attempt, now, faces>>
\* the feedback of the dashboard sessions and the file they share
feedback == <<feedback_file, user_feedback, session_pc, click, handled>>
\* the dashboard (src/app.py)
app == <<session, feedback>>

\* the CameraHandler object
handler == <<cap, is_running>>
\* the handler and the devices around it
camera == <<cap, is_running, webcams>>

engine == <<emotion_to_genre, default_playlists, default_playlists_by_language,
            spotify_client, spotify_configured>>

catalog == <<emotion_to_genre, default_playlists, default_playlists_by_language>>

-----------------------------------------------------------------------------
(* Bounds of the model *)

\* limit ranges over -MaxNegLimit .. MaxLimit
MaxNegLimit == 2
MaxLimit == 3
\* the provider's answers repeat with this period over the requests of a call
OraclePeriod == 2

-----------------------------------------------------------------------------
(* Python values *)

None == "None"
EmptyDict == <<>>
NoClient == <<>>

\* truth value of a str-or-None value
Truthy(v) == v # None /\ v # ""

\* d.get(k, dflt)
Get(d, k, dflt) == IF k \in DOMAIN d THEN d[k] ELSE dflt

\* {**p, **q}
Merge(p, q) == [k \in DOMAIN p \cup DOMAIN q |-> IF k \in DOMAIN q THEN q[k] ELSE p[k]]

Min(a, b) == IF a <= b THEN a ELSE b
Max(a, b) == IF a >= b THEN a ELSE b

\* s[:n] of a Python list, negative n counting from the end
PySliceOffByOne(s, n) == SubSeq(s, 1, Min(IF n >= 0 THEN n + 1 ELSE Max(Len(s) + n, 0), Len(s)))
PySlice(s, n) == SubSeq(s, 1, IF n >= 0 THEN Min(n, Len(s)) ELSE Max(Len(s) + n, 0))

-----------------------------------------------------------------------------
(* The static tables built by __init__ *)

InitEmotionToGenre ==
    [happy    |-> [genres |-> <<"pop", "dance", "electronic">>, mood |-> "upbeat",
                   energy |-> "high",
                   description |-> "Upbeat and energetic music to match your happy mood!"],
     sad      |-> [genres |-> <<"acoustic", "chill", "ambient">>, mood |-> "calm",
                   energy |-> "low",
                   description |-> "Calming and soothing music to comfort your mood."],
     angry    |-> [genres |-> <<"rock", "metal", "punk">>, mood |-> "intense",
                   energy |-> "high",
                   description |-> "Powerful and intense music to channel your energy!"],
     fear     |-> [genres |-> <<"ambient", "classical", "instrumental">>, mood |-> "peaceful",
                   energy |-> "low",
                   description |-> "Peaceful and calming music to help you relax."],
     surprise |-> [genres |-> <<"electronic", "funk", "disco">>, mood |-> "energetic",
                   energy |-> "high",
                   description |-> "Energetic and fun music to match your surprise!"],
     disgust  |-> [genres |-> <<"alternative", "indie", "experimental">>, mood |-> "unique",
                   energy |-> "medium",
                   description |-> "Unique and interesting music for your mood."],
     neutral  |-> [genres |-> <<"lo-fi", "instrumental", "jazz">>, mood |-> "relaxed",
                   energy |-> "medium",
                   description |-> "Relaxed and chill music for your neutral mood."]]

InitDefaultPlaylists ==
    [happy    |-> <<[name |-> "Happy Hits", id |-> "37i9dQZF1DX3XNs9D5lWnM"],
                    [name |-> "Dance Party", id |-> "37i9dQZF1DXcBWIGoYBM5M"],
                    [name |-> "Pop Mix", id |-> "37i9dQZF1DXcF6B6QPhFDv"]>>,
     sad      |-> <<[name |-> "Chill Vibes", id |-> "37i9dQZF1DX4WYpdgoIcn6"],
                    [name |-> "Acoustic Covers", id |-> "37i9dQZF1DX5Vy6DFOcx00"],
                    [name |-> "Peaceful Piano", id |-> "37i9dQZF1DX7KNKjOK0o75"]>>,
     angry    |-> <<[name |-> "Rock Classics", id |-> "37i9dQZF1DX5Vy6DFOcx00"],
                    [name |-> "Metal Essentials", id |-> "37i9dQZF1DX5Vy6DFOcx00"],
                    [name |-> "Punk Rock", id |-> "37i9dQZF1DX5Vy6DFOcx00"]>>,
     fear     |-> <<[name |-> "Ambient Relaxation", id |-> "37i9dQZF1DX5Vy6DFOcx00"],
                    [name |-> "Classical Music", id |-> "37i9dQZF1DX5Vy6DFOcx00"],
                    [name |-> "Nature Sounds", id |-> "37i9dQZF1DX5Vy6DFOcx00"]>>,
     surprise |-> <<[name |-> "Electronic Beats", id |-> "37i9dQZF1DX5Vy6DFOcx00"],
                    [name |-> "Funk & Soul", id |-> "37i9dQZF1DX5Vy6DFOcx00"],
                    [name |-> "Disco Hits", id |-> "37i9dQZF1DX5Vy6DFOcx00"]>>,
     disgust  |-> <<[name |-> "Alternative Rock", id |-> "37i9dQZF1DX5Vy6DFOcx00"],
                    [name |-> "Indie Vibes", id |-> "37i9dQZF1DX5Vy6DFOcx00"],
                    [name |-> "Experimental", id |-> "37i9dQZF1DX5Vy6DFOcx00"]>>,
     neutral  |-> <<[name |-> "Lo-Fi Beats", id |-> "37i9dQZF1DX5Vy6DFOcx00"],
                    [name |-> "Instrumental", id |-> "37i9dQZF1DX5Vy6DFOcx00"],
                    [name |-> "Jazz Vibes", id |-> "37i9dQZF1DX5Vy6DFOcx00"]>>]

InitDefaultPlaylistsByLanguage ==
    [telugu  |-> [happy    |-> <<[name |-> "Telugu Party", id |-> "37i9dQZF1DX0XUfTFmNBRM"]>>,
                  sad      |-> <<[name |-> "Telugu Melodies", id |-> "37i9dQZF1DX8HU1L2vQ4dH"]>>,
                  neutral  |-> <<[name |-> "Telugu Chill", id |-> "37i9dQZF1DXbYFKu7Gx0xK"]>>,
                  angry    |-> <<[name |-> "Telugu Rock Mix", id |-> "37i9dQZF1DX8z1uyQZB0QG"]>>,
                  surprise |-> <<[name |-> "Telugu Electronic", id |-> "37i9dQZF1DX9tPFwDMOaN1"]>>],
     tamil   |-> [happy    |-> <<[name |-> "Tamil Hits", id |-> "37i9dQZF1DX72V5L1FZ8V2"]>>,
                  sad      |-> <<[name |-> "Tamil Melodies", id |-> "37i9dQZF1DXbJx0B3bKcEb"]>>,
                  neutral  |-> <<[name |-> "Tamil Chill", id |-> "37i9dQZF1DX0XUY2hEjrCW"]>>,
                  angry    |-> <<[name |-> "Tamil Rock Mix", id |-> "37i9dQZF1DX2bI3oPAWZ2U"]>>,
                  surprise |-> <<[name |-> "Tamil Electronic", id |-> "37i9dQZF1DX2i3gd2hGRqy"]>>],
     kannada |-> [happy    |-> <<[name |-> "Kannada Party", id |-> "37i9dQZF1DX0hWmn8d5pRe"]>>,
                  sad      |-> <<[name |-> "Kannada Melodies", id |-> "37i9dQZF1DXd1Bo4QJ3nxb"]>>,
                  neutral  |-> <<[name |-> "Kannada Chill", id |-> "37i9dQZF1DX8O2z5Vd2G8X"]>>,
                  angry    |-> <<[name |-> "Kannada Rock Mix", id |-> "37i9dQZF1DX4jSp9oQ7G5D"]>>,
                  surprise |-> <<[name |-> "Kannada Electronic", id |-> "37i9dQZF1DX7RZ9k1l0Qj7"]>>],
     hindi   |-> [happy    |-> <<[name |-> "Bollywood Dance", id |-> "37i9dQZF1DXdFesNN9TzXt"]>>,
                  sad      |-> <<[name |-> "Bollywood Melancholy", id |-> "37i9dQZF1DX7K31D69s4M1"]>>,
                  neutral  |-> <<[name |-> "Lo-fi Hindi", id |-> "37i9dQZF1DX4wta20PHgwo"]>>,
                  angry    |-> <<[name |-> "Hindi Rock Mix", id |-> "37i9dQZF1DX7cLxqtNO3zl"]>>,
                  surprise |-> <<[name |-> "Hindi Electronic", id |-> "37i9dQZF1DX1i0j9Jz3Z4U"]>>]]

KnownEmotions == {"happy", "sad", "angry", "fear", "surprise", "disgust", "neutral"}

FallbackEmotionInfo ==
    [genres |-> <<"pop">>, mood |-> "neutral", energy |-> "medium",
     description |-> "Music to match your current mood."]

-----------------------------------------------------------------------------
(* The provider: what one spotify_client.search request can answer *)

PlaylistUrl(playlist_id) == "https://open.spotify.com/playlist/" \o playlist_id

SharedDefaultId == "37i9dQZF1DX5Vy6DFOcx00"

ItemA == [id |-> "pA", name |-> "Mix A", description |-> "first mix",
          external_urls |-> [spotify |-> PlaylistUrl("pA")], tracks |-> [total |-> "10"]]
\* no external_urls, no tracks, no description
ItemB == [id |-> "pB", name |-> "Mix B"]
ItemC == [id |-> "pC", name |-> "Mix C", description |-> "third mix",
          external_urls |-> [spotify |-> PlaylistUrl("pC")], tracks |-> [total |-> "30"]]
\* an item without id
ItemNoId == [name |-> "Mix D", external_urls |-> [spotify |-> PlaylistUrl("pD")],
             tracks |-> [total |-> "40"]]
\* the provider's own entry for an id the static catalog also uses
ItemShared == [id |-> SharedDefaultId, name |-> "Rock Classics", description |-> "",
               external_urls |-> [spotify |-> PlaylistUrl(SharedDefaultId)],
               tracks |-> [total |-> "50"]]
\* a None (or empty) item
ItemEmpty == EmptyDict

ExceptionClasses == {"SpotifyException", "ReadTimeout"}

Raise(exc) == [raises |-> exc, results |-> EmptyDict]
Answer(results) == [raises |-> None, results |-> results]
Items(items) == Answer([playlists |-> [items |-> items]])

ProviderResponses ==
    { Raise("ReadTimeout"),
      Answer(EmptyDict),                    \* search returned None
      Answer([playlists |-> EmptyDict]),    \* a blob without items
      Items(<<ItemA, ItemB>>),
      Items(<<ItemB, ItemA, ItemC>>),
      Items(<<ItemNoId, ItemEmpty, ItemShared>>) }

Oracles == [1..OraclePeriod -> ProviderResponses]

\* a provider that cannot be reached
Unreachable == [i \in 1..OraclePeriod |-> Raise("ReadTimeout")]

\* the answer to the k-th request of a call
OracleAt(oracle, k) == oracle[((k - 1) % Len(oracle)) + 1]

-----------------------------------------------------------------------------
(* Inputs of the calls *)

EmotionInputs == KnownEmotions \cup {"unknown_label"}
LanguageInputs ==
    {None, "", "auto", "telugu", " Telegu ", "TAMIL", "hindhi", "french", "bangla"}
LimitInputs == (0 - MaxNegLimit) .. MaxLimit

-----------------------------------------------------------------------------
(* MusicRecommender: helpers *)

\* get_emotion_info
GetEmotionInfo(emotion) == Get(emotion_to_genre, emotion, FallbackEmotionInfo)

\* language.strip().lower(), on the language inputs of the model
StripLower(language) ==
    CASE language = " Telegu " -> "telegu"
      [] language = "TAMIL" -> "tamil"
      [] OTHER -> language

LanguageAliases == [telegu |-> "telugu", bangla |-> "bengali", hindhi |-> "hindi"]

\* _language_normalize
LanguageNormalizeNoAliases(language) ==
    IF ~Truthy(language) THEN None ELSE StripLower(language)
LanguageNormalize(language) ==
    IF ~Truthy(language) THEN None
    ELSE LET lang == StripLower(language)
         IN  Get(LanguageAliases, lang, lang)

\* _language_defaults
LanguageDefaults(emotion, language) ==
    LET lang == LanguageNormalize(language)
    IN  IF ~Truthy(lang) THEN <<>>
        ELSE LET lang_map == Get(default_playlists_by_language, lang, EmptyDict)
             IN  Get(lang_map, emotion, <<>>)

-----------------------------------------------------------------------------
(* get_recommended_playlists, stage by stage *)

\* lines 202-203
NormalizeEmotionKeep(emotion) == emotion
NormalizeEmotion(emotion) ==
    IF emotion \notin DOMAIN emotion_to_genre THEN "neutral" ELSE emotion

\* line 206
GenericDefaultsRest(emotion) == Tail(Get(default_playlists, emotion, <<>>))
GenericDefaults(emotion) == Get(default_playlists, emotion, <<>>)

\* lines 205-211: the static seed, localized entries ahead of the generic ones
StaticSeedGenericFirst(emotion, language) ==
    GenericDefaults(emotion) \o LanguageDefaults(emotion, language)
StaticSeedGenericOnly(emotion, language) == GenericDefaults(emotion)
StaticSeed(emotion, language) ==
    LET playlists == GenericDefaults(emotion)
        lang_defaults == LanguageDefaults(emotion, language)
    IN  IF lang_defaults # <<>> THEN lang_defaults \o playlists ELSE playlists

\* line 214 and line 266
ProviderEnabledClientOnly == spotify_client # NoClient
ProviderEnabled == spotify_configured /\ spotify_client # NoClient

\* lines 216-229
SearchQueries(emotion, language) ==
    LET emotion_info == GetEmotionInfo(emotion)
        mood == Get(emotion_info, "mood", "")
        lang == LanguageNormalize(language)
        genres == Get(emotion_info, "genres", <<>>)
    IN  IF Truthy(lang)
        THEN <<lang \o " " \o mood \o " music", lang \o " " \o emotion \o " playlist">>
             \o [i \in 1..Min(2, Len(genres)) |-> lang \o " " \o genres[i] \o " playlist"]
        ELSE <<emotion \o " " \o mood \o " music">>

\* lines 244-254
FoundEntry(item, pid, lang) ==
    LET external_urls == Get(item, "external_urls", EmptyDict)
        tracks_info == Get(item, "tracks", EmptyDict)
    IN  [name |-> Get(item, "name", "Playlist"),
         id |-> pid,
         url |-> Get(external_urls, "spotify", None),
         description |-> Get(item, "description", ""),
         tracks_total |-> Get(tracks_info, "total", None),
         source |-> "Spotify",
         language |-> IF Truthy(lang) THEN lang ELSE "auto"]

\* line 241
SkipItemIgnoreSeen(item, seen_ids) == item = EmptyDict \/ ~Truthy(Get(item, "id", None))
SkipItem(item, seen_ids) ==
    \/ item = EmptyDict
    \/ ~Truthy(Get(item, "id", None))
    \/ Get(item, "id", None) \in seen_ids

\* lines 237-256: the loop over the items of one response
RECURSIVE GatherItems(_, _, _, _, _)
GatherItems(items, found, seen_ids, limit, lang) ==
    IF items = <<>> THEN [found |-> found, seen_ids |-> seen_ids]
    ELSE LET item == Head(items)
         IN  IF SkipItem(item, seen_ids)
             THEN GatherItems(Tail(items), found, seen_ids, limit, lang)
             ELSE LET pid == item.id
                      found2 == Append(found, FoundEntry(item, pid, lang))
                      seen2 == seen_ids \cup {pid}
                  IN  IF Len(found2) >= limit
                      THEN [found |-> found2, seen_ids |-> seen2]
                      ELSE GatherItems(Tail(items), found2, seen2, limit, lang)

\* lines 234-236
ResponseItems(results) ==
    LET playlists_blob == Get(results, "playlists", EmptyDict)
    IN  Get(playlists_blob, "items", <<>>)

SearchRequest(q, limit) == [q |-> q, type |-> "playlist", limit |-> limit, market |-> "IN"]

\* lines 233-258: the loop over the queries; k requests were issued before.
\* RunQueriesNoEarlyStop is the loop without the break of lines 257-258.
RECURSIVE RunQueriesNoEarlyStop(_, _, _, _, _, _, _, _)
RunQueriesNoEarlyStop(queries, found, seen_ids, limit, lang, oracle, k, requests) ==
    IF queries = <<>>
    THEN [exc |-> None, found |-> found, k |-> k, requests |-> requests]
    ELSE LET response == OracleAt(oracle, k + 1)
             requests2 == Append(requests, SearchRequest(Head(queries), limit))
         IN  IF response.raises # None
             THEN [exc |-> response.raises, found |-> found, k |-> k + 1,
                   requests |-> requests2]
             ELSE LET g == GatherItems(ResponseItems(response.results), found,
                                       seen_ids, limit, lang)
                  IN  RunQueriesNoEarlyStop(Tail(queries), g.found, g.seen_ids, limit,
                                            lang, oracle, k + 1, requests2)
RECURSIVE RunQueries(_, _, _, _, _, _, _, _)
RunQueries(queries, found, seen_ids, limit, lang, oracle, k, requests) ==
    IF queries = <<>>
    THEN [exc |-> None, found |-> found, k |-> k, requests |-> requests]
    ELSE LET response == OracleAt(oracle, k + 1)
             requests2 == Append(requests, SearchRequest(Head(queries), limit))
         IN  IF response.raises # None
             THEN [exc |-> response.raises, found |-> found, k |-> k + 1,
                   requests |-> requests2]
             ELSE LET g == GatherItems(ResponseItems(response.results), found,
                                       seen_ids, limit, lang)
                  IN  IF Len(g.found) >= limit
                      THEN [exc |-> None, found |-> g.found, k |-> k + 1,
                            requests |-> requests2]
                      ELSE RunQueries(Tail(queries), g.found, g.seen_ids, limit, lang,
                                      oracle, k + 1, requests2)

\* lines 215-258: the search pass up to the point where it ends or raises
SearchPass(emotion, limit, language, oracle) ==
    RunQueries(SearchQueries(emotion, language), <<>>, {}, limit,
               LanguageNormalize(language), oracle, 0, <<>>)

\* lines 262 and 294: `except Exception`
ExceptSpotifyOnly(exc) == exc = "SpotifyException"
ExceptException(exc) == exc \in ExceptionClasses

\* lines 259-263: what the search pass hands on; line 260 is not reached when a
\* query raised
FoundAfterSearchKeep(sp) == sp.found
FoundAfterSearch(sp) == IF sp.exc = None THEN sp.found ELSE <<>>

\* lines 260-261
PrependFoundBehind(found, playlists) == playlists \o found
PrependFoundAlone(found, playlists) == IF found # <<>> THEN found ELSE playlists
PrependFound(found, playlists) ==
    IF found # <<>> THEN found \o playlists ELSE playlists

\* x or y, on str-or-None values
Or(x, y) == IF Truthy(x) THEN x ELSE y

EnrichRequest(q) == [q |-> q, type |-> "playlist", limit |-> 1, market |-> "IN"]

\* lines 279-291: p resolved against the first item of the response
EnrichEntry(p, item, lang) ==
    LET external_urls == Get(item, "external_urls", EmptyDict)
        tracks_info == Get(item, "tracks", EmptyDict)
        resolved_id == Or(Get(item, "id", None), Get(p, "id", None))
    IN  IF Truthy(resolved_id) /\ Truthy(Get(external_urls, "spotify", None))
        THEN Merge(p, [id |-> resolved_id,
                       url |-> Get(external_urls, "spotify", None),
                       tracks_total |-> Get(tracks_info, "total", None),
                       source |-> Get(p, "source", "Default"),
                       language |-> Get(p, "language", lang)])
        ELSE p

\* line 271
NeedsEnrichmentAnyNamed(p) == Truthy(Get(p, "name", None))
NeedsEnrichment(p) == ~Truthy(Get(p, "url", None)) /\ Truthy(Get(p, "name", None))

\* lines 270-292: the loop over the assembled list; k requests were issued before
RECURSIVE EnrichLoop(_, _, _, _, _, _)
EnrichLoop(playlists, enriched, lang, oracle, k, requests) ==
    IF playlists = <<>>
    THEN [exc |-> None, enriched |-> enriched, k |-> k, requests |-> requests]
    ELSE LET p == Head(playlists)
         IN  IF ~NeedsEnrichment(p)
             THEN EnrichLoop(Tail(playlists), Append(enriched, p), lang, oracle, k, requests)
             ELSE LET q == IF lang # "auto" THEN lang \o " " \o p.name ELSE p.name
                      response == OracleAt(oracle, k + 1)
                      requests2 == Append(requests, EnrichRequest(q))
                      items == ResponseItems(response.results)
                  IN  IF response.raises # None
                      THEN [exc |-> response.raises, enriched |-> enriched, k |-> k + 1,
                            requests |-> requests2]
                      ELSE EnrichLoop(Tail(playlists),
                                      Append(enriched,
                                             IF items # <<>>
                                             THEN EnrichEntry(p, items[1], lang)
                                             ELSE p),
                                      lang, oracle, k + 1, requests2)

\* lines 267-293: the enrichment pass up to the point where it ends or raises
EnrichPass(playlists, language, oracle, k, requests) ==
    EnrichLoop(playlists, <<>>, Or(LanguageNormalize(language), "auto"), oracle, k, requests)

\* lines 293-296: the list after the enrichment pass ended (exc = None) or raised
AfterEnrichAssignAlways(playlists, ep) == ep.enriched
AfterEnrich(playlists, ep) == IF ep.exc = None THEN ep.enriched ELSE playlists

\* a pass the code skips: the provider is not enabled
SkippedPass == [exc |-> None, found |-> <<>>, enriched |-> <<>>, k |-> 0, requests |-> <<>>]

\* lines 197-298: the whole call, with `enabled` the value of the test of lines 214
\* and 266.  raised is the exception the call lets through to its caller (None when
\* it returns), result the returned list, requests the provider requests it issued,
\* in order, enriched the list the enrichment loop had built when it ended or raised,
\* lang_defaults the value of line 209.
RecommendAs(enabled, emotion_arg, limit, language, oracle) ==
    LET emotion == NormalizeEmotion(emotion_arg)
        seed == StaticSeed(emotion, language)
        sp == IF enabled THEN SearchPass(emotion, limit, language, oracle)
              ELSE SkippedPass
        search_uncaught == sp.exc # None /\ ~ExceptException(sp.exc)
        found == FoundAfterSearch(sp)
        searched == PrependFound(found, seed)
        ep == IF enabled /\ ~search_uncaught
              THEN EnrichPass(searched, language, oracle, sp.k, sp.requests)
              ELSE [SkippedPass EXCEPT !.requests = sp.requests, !.k = sp.k]
        enrich_uncaught == ep.exc # None /\ ~ExceptException(ep.exc)
        playlists == IF enabled /\ ~search_uncaught
                     THEN AfterEnrich(searched, ep) ELSE searched
        raised == IF search_uncaught THEN sp.exc
                  ELSE IF enrich_uncaught THEN ep.exc ELSE None
    IN  [raised |-> raised,
         result |-> IF raised = None THEN PySlice(playlists, limit) ELSE <<>>,
         gathered |-> sp.found,
         search_exc |-> sp.exc,
         found |-> found,
         enrich_exc |-> ep.exc,
         enriched |-> ep.enriched,
         lang_defaults |-> LanguageDefaults(emotion, language),
         playlists |-> playlists,
         n_search |-> Len(sp.requests),
         requests |-> ep.requests]

Recommend(emotion_arg, limit, language, oracle) ==
    RecommendAs(ProviderEnabled, emotion_arg, limit, language, oracle)

-----
(* The state machine *)

NoCall == [op |-> "none"]

ClientIdInputs == {"", "client-id"}
ClientSecretInputs == {"", "client-secret"}
\* what the connectivity probe user_playlists('spotify') does: None = it returns
ProbeOutcomes == {None, "SpotifyException"}

\* no cv2.VideoCapture object: self.cap is None
NoCapture == <<>>

\* `> 2` of line 538 of app.py, in tenths of a second
DetectionInterval == 20
\* detect_emotion was not called yet
NoAttempt == 0 - 1
\* time.time() when the session starts: further than the interval from the 0 that
\* last_detection_time starts with (app.py line 387)
FirstTime == DetectionInterval + 1

\* the dashboard sessions that share user_feedback.json
NumSessions == 2
Sessions == 1..NumSessions
\* the playlists the sessions give feedback on
PlaylistIds == {"37i9dQZF1DX3XNs9D5lWnM", "pA"}
\* user_feedback.json does not exist
NoFile == [exists |-> FALSE, content |-> EmptyDict]

\* MusicRecommender.__init__ and CameraHandler.__init__; no webcam is plugged in yet
Init ==
    /\ emotion_to_genre = InitEmotionToGenre
    /\ default_playlists = InitDefaultPlaylists
    /\ default_playlists_by_language = InitDefaultPlaylistsByLanguage
    /\ spotify_client = NoClient
    /\ spotify_configured = FALSE
    /\ pc = "idle"
    /\ call = NoCall
    /\ out = NoCall
    /\ prev = NoCall
    /\ cap = NoCapture
    /\ is_running = FALSE
    /\ webcams = {}
    /\ mood_history = <<>>
    /\ recorded = 0
    /\ last_detection_time = 0
    /\ last_attempt = NoAttempt
    /\ now = FirstTime
    /\ faces = <<>>
    /\ feedback_file = NoFile
    /\ user_feedback = [s \in Sessions |-> EmptyDict]
    /\ session_pc = [s \in Sessions |-> "idle"]
    /\ click = [s \in Sessions |-> NoCall]
    /\ handled = [p \in PlaylistIds |-> [likes |-> 0, dislikes |-> 0]]

\* spotipy.Spotify(client_credentials_manager=...), lines 149-156
NewClient(client_id, client_secret) ==
    [client_id |-> client_id, client_secret |-> client_secret]

\* setup_spotify, lines 143-168.  SetupSpotifyConfiguredBeforeProbe is the call with
\* line 160 ahead of line 159, SetupSpotifyAssignSuccess the call that stores its own
\* return value in spotify_configured.
SetupSpotifyConfiguredBeforeProbe(client_id, client_secret, probe) ==
    /\ pc = "idle"
    /\ LET credentials == Truthy(client_id) /\ Truthy(client_secret)
           success == credentials /\ probe = None
       IN  /\ spotify_client' = IF credentials THEN NewClient(client_id, client_secret)
                                ELSE spotify_client
           /\ spotify_configured' = IF credentials THEN TRUE ELSE spotify_configured
           /\ out' = [op |-> "setup_spotify", ret |-> success]
    /\ call' = [op |-> "setup_spotify", client_id |-> client_id,
                client_secret |-> client_secret, probe |-> probe]
    /\ pc' = "returned"
    /\ UNCHANGED <<catalog, prev, camera, app>>
SetupSpotifyAssignSuccess(client_id, client_secret, probe) ==
    /\ pc = "idle"
    /\ LET credentials == Truthy(client_id) /\ Truthy(client_secret)
           success == credentials /\ probe = None
       IN  /\ spotify_client' = IF credentials THEN NewClient(client_id, client_secret)
                                ELSE spotify_client
           /\ spotify_configured' = success
           /\ out' = [op |-> "setup_spotify", ret |-> success]
    /\ call' = [op |-> "setup_spotify", client_id |-> client_id,
                client_secret |-> client_secret, probe |-> probe]
    /\ pc' = "returned"
    /\ UNCHANGED <<catalog, prev, camera, app>>
SetupSpotify(client_id, client_secret, probe) ==
    /\ pc = "idle"
    /\ LET credentials == Truthy(client_id) /\ Truthy(client_secret)
           success == credentials /\ probe = None
       IN  /\ spotify_client' = IF credentials THEN NewClient(client_id, client_secret)
                                ELSE spotify_client
           /\ spotify_configured' = IF success THEN TRUE ELSE spotify_configured
           /\ out' = [op |-> "setup_spotify", ret |-> success]
    /\ call' = [op |-> "setup_spotify", client_id |-> client_id,
                client_secret |-> client_secret, probe |-> probe]
    /\ pc' = "returned"
    /\ UNCHANGED <<catalog, prev, camera, app>>

\* The effect of one get_recommended_playlists call (lines 197-298) on the engine
\* and on its caller.  InvokeInPlace is the call with line 211 written as the
\* in-place `playlists[:0] = lang_defaults`.
InvokeInPlace(emotion, limit, language, oracle) ==
    /\ call' = [op |-> "get_recommended_playlists", emotion |-> emotion,
                limit |-> limit, language |-> language, oracle |-> oracle]
    /\ out' = Recommend(emotion, limit, language, oracle)
    /\ pc' = "returned"
    /\ default_playlists' =
          [default_playlists EXCEPT ![NormalizeEmotion(emotion)] =
              StaticSeed(NormalizeEmotion(emotion), language)]
    /\ UNCHANGED <<emotion_to_genre, default_playlists_by_language,
                   spotify_client, spotify_configured, camera, app>>
\* InvokeEnrichInPlace is the call with lines 284-291 written as the in-place
\* `p.update(...)`: what the enrichment pass fills in lands in the catalog's dicts.
InvokeEnrichInPlace(emotion, limit, language, oracle) ==
    LET r == Recommend(emotion, limit, language, oracle)
        n == Len(GenericDefaults(NormalizeEmotion(emotion)))
        m == Len(r.playlists)
    IN  /\ call' = [op |-> "get_recommended_playlists", emotion |-> emotion,
                    limit |-> limit, language |-> language, oracle |-> oracle]
        /\ out' = r
        /\ pc' = "returned"
        /\ default_playlists' =
              [default_playlists EXCEPT ![NormalizeEmotion(emotion)] =
                  SubSeq(r.playlists, m - n + 1, m)]
        /\ UNCHANGED <<emotion_to_genre, default_playlists_by_language,
                       spotify_client, spotify_configured, camera, app>>
Invoke(emotion, limit, language, oracle) ==
    /\ call' = [op |-> "get_recommended_playlists", emotion |-> emotion,
                limit |-> limit, language |-> language, oracle |-> oracle]
    /\ out' = Recommend(emotion, limit, language, oracle)
    /\ pc' = "returned"
    /\ UNCHANGED <<engine, camera, app>>

\* get_recommended_playlists called by a caller that holds no result
GetRecommendedPlaylists(emotion, limit, language, oracle) ==
    /\ pc = "idle"
    /\ Invoke(emotion, limit, language, oracle)
    /\ UNCHANGED prev

\* get_recommended_playlists called again with the arguments of the call that just
\* returned, the provider answering as it did (the dashboard re-runs its script and
\* asks again for the same emotion and language)
RepeatCall ==
    /\ pc = "returned"
    /\ call.op = "get_recommended_playlists"
    /\ prev' = [call |-> call, out |-> out]
    /\ Invoke(call.emotion, call.limit, call.language, call.oracle)

\* the caller is done with what the call returned (the engine keeps no result)
Consume ==
    /\ pc = "returned"
    /\ pc' = "idle"
    /\ call' = NoCall
    /\ out' = NoCall
    /\ prev' = NoCall
    /\ UNCHANGED <<engine, camera, app>>

Setup ==
    /\ pc = "idle"
    /\ \E client_id \in ClientIdInputs, client_secret \in ClientSecretInputs,
          probe \in ProbeOutcomes :
           SetupSpotify(client_id, client_secret, probe)

\* While the provider is not enabled no request reaches it (lines 214 and 266), so
\* one provider behaviour stands for all of them.
OracleInputs == IF ProviderEnabled THEN Oracles ELSE {Unreachable}

Recommendation ==
    /\ pc = "idle"
    /\ \E emotion \in EmotionInputs, limit \in LimitInputs, language \in LanguageInputs,
          oracle \in OracleInputs :
           GetRecommendedPlaylists(emotion, limit, language, oracle)

Next == Setup \/ Recommendation \/ RepeatCall \/ Consume

Spec == Init /\ [][Next]_vars

-----------------------------------------------------------------------------
(* CameraHandler (src/camera.py) *)

\* range(1, 4), line 34: the last index start_camera tries after index 0
LastCameraIndex == 3
CameraIndices == 0..LastCameraIndex

\* get_camera_info without a capture, line 103
DefaultResolution == <<640, 480>>
\* what an opened device runs at after the requests of lines 41-42, which a device
\* may or may not honour
Resolutions == {<<640, 480>>, <<1280, 720>>}
\* cap.get(...) of a capture that is not opened
NoResolution == <<0, 0>>

\* cv2.VideoCapture(i): opened iff a device answers at index i
VideoCapture(i, resolution) ==
    [index |-> i, opened |-> i \in webcams,
     resolution |-> IF i \in webcams THEN resolution ELSE NoResolution]

\* lines 30-37: index 0, then 1..3 until one opens; the last one tried stays in
\* self.cap when none opens
TriedCapture(resolution) ==
    LET i == IF webcams = {} THEN LastCameraIndex
             ELSE CHOOSE j \in webcams : \A k \in webcams : j <= k
    IN  VideoCapture(i, resolution)

\* what cap.read() can do (line 72): a frame, ret False, a cv2.error; a frame only
\* from an opened capture whose device is still there
ReadOutcomes == {"frame", "no_frame", "error"}
ReadOutcomesNow ==
    IF cap # NoCapture /\ cap.opened /\ cap.index \in webcams
    THEN ReadOutcomes ELSE {"no_frame", "error"}

\* is_camera_active, line 90
is_camera_active == is_running /\ cap # NoCapture

\* get_frame, lines 68-81, with `read` what cap.read() does when it is reached
get_frame(read) ==
    IF cap = NoCapture \/ ~is_running THEN None
    ELSE IF read = "frame" THEN "frame_rgb" ELSE None

\* get_camera_info, lines 99-103
get_camera_info == IF cap # NoCapture THEN cap.resolution ELSE DefaultResolution

\* the handler as a call finds it
Self == [cap |-> cap, is_running |-> is_running]

\* start_camera, lines 28-52
StartCamera(resolution) ==
    /\ pc = "idle"
    /\ cap' = TriedCapture(resolution)
    /\ is_running' = IF cap'.opened THEN TRUE ELSE is_running
    /\ call' = [op |-> "start_camera", self |-> Self]
    /\ out' = [op |-> "start_camera", raised |-> None, ret |-> cap'.opened]
    /\ pc' = "returned"
    /\ UNCHANGED <<engine, prev, webcams, app>>

\* stop_camera, lines 56-59.  StopCameraFlagOnly is the call without lines 56-58.
StopCameraFlagOnly ==
    /\ pc = "idle"
    /\ is_running' = FALSE
    /\ call' = [op |-> "stop_camera", self |-> Self]
    /\ out' = [op |-> "stop_camera", raised |-> None, ret |-> None]
    /\ pc' = "returned"
    /\ UNCHANGED <<engine, prev, webcams, cap, app>>
StopCamera ==
    /\ pc = "idle"
    /\ cap' = NoCapture
    /\ is_running' = FALSE
    /\ call' = [op |-> "stop_camera", self |-> Self]
    /\ out' = [op |-> "stop_camera", raised |-> None, ret |-> None]
    /\ pc' = "returned"
    /\ UNCHANGED <<engine, prev, webcams, app>>

\* a call of one of the three read-only operations
Query(op, ret) ==
    /\ pc = "idle"
    /\ call' = [op |-> op, self |-> Self]
    /\ out' = [op |-> op, raised |-> None, ret |-> ret]
    /\ pc' = "returned"
    /\ UNCHANGED <<engine, prev, camera, app>>

GetFrame == \E read \in ReadOutcomesNow : Query("get_frame", get_frame(read))
IsCameraActive == Query("is_camera_active", is_camera_active)
GetCameraInfo == Query("get_camera_info", get_camera_info)

\* a webcam is plugged in or pulled out, whatever the handler holds
Plug(i) ==
    /\ pc = "idle" /\ i \notin webcams
    /\ webcams' = webcams \cup {i}
    /\ UNCHANGED <<engine, pc, call, out, prev, handler, app>>
Unplug(i) ==
    /\ pc = "idle" /\ i \in webcams
    /\ webcams' = webcams \ {i}
    /\ UNCHANGED <<engine, pc, call, out, prev, handler, app>>

Start == \E resolution \in Resolutions : StartCamera(resolution)
Webcam == \E i \in CameraIndices : Plug(i) \/ Unplug(i)

CameraNext ==
    Start \/ StopCamera \/ GetFrame \/ IsCameraActive \/ GetCameraInfo \/ Webcam \/ Consume

CameraSpec == Init /\ [][CameraNext]_vars

-----------------------------------------------------------------------------
(* The dashboard: mood history (src/app.py) *)

\* `> 50` and `[-50:]` of lines 245-246
MoodHistoryCap == 50
\* update_mood_history is called at most this many times
MaxDetections == 52
\* what the detector reads off the user's face repeats with this period
FacePeriod == 3

\* what detect_emotion returns for a face: the emotion and its confidence, in
\* hundredths, above the threshold
FaceReadings == {[emotion |-> "happy", confidence |-> 90],
                 [emotion |-> "sad", confidence |-> 45]}
FaceStreams == [1..FacePeriod -> FaceReadings]
\* what the n-th successful detection of the session returns
FaceAt(n) == faces[((n - 1) % Len(faces)) + 1]

\* initialize_session_state, lines 69-72, for a user whose face reads as `stream`
StartSession(stream) ==
    /\ faces = <<>>
    /\ faces' = stream
    /\ mood_history' = <<>>
    /\ UNCHANGED <<engine, pc, call, out, prev, camera, feedback,
                   recorded, last_detection_time, last_attempt, now>>

\* h[-n:] and, for comparison, h[:n]
FirstEntries(h, n) == SubSeq(h, 1, Min(n, Len(h)))
LastEntries(h, n) == SubSeq(h, Max(Len(h) - n, 0) + 1, Len(h))

\* update_mood_history, lines 235-246
UpdateMoodHistory(emotion, confidence) ==
    LET appended == Append(mood_history, [emotion |-> emotion, confidence |-> confidence,
                                          timestamp |-> now])
    IN  /\ mood_history' = IF Len(appended) > MoodHistoryCap
                           THEN LastEntries(appended, MoodHistoryCap)
                           ELSE appended
        /\ recorded' = recorded + 1

\* the browser snapshot, lines 563-575: detect_emotion on the photo, and
\* update_mood_history when it found an emotion; the clock moves on between two
\* recorded snapshots
Snapshot(detected) ==
    /\ faces # <<>> /\ recorded < MaxDetections
    /\ IF detected
       THEN /\ UpdateMoodHistory(FaceAt(recorded + 1).emotion,
                                 FaceAt(recorded + 1).confidence)
            /\ now' = now + 1
       ELSE UNCHANGED <<mood_history, recorded, now>>
    /\ UNCHANGED <<engine, pc, call, out, prev, camera, feedback,
                   last_detection_time, last_attempt, faces>>

OpenSession == \E stream \in FaceStreams : StartSession(stream)
TakeSnapshot == \E detected \in BOOLEAN : Snapshot(detected)

HistoryNext == OpenSession \/ TakeSnapshot

HistorySpec == Init /\ [][HistoryNext]_vars

-----------------------------------------------------------------------------
(* The dashboard: the camera loop (src/app.py, lines 534-549) *)

\* the loop is followed up to this clock value
MaxTime == 70
\* how long one detect_emotion call takes, in tenths of a second
DetectDurations == {1, 3}

\* line 538: the test that lets detect_emotion run
DetectionDue == now - last_detection_time > DetectionInterval

\* one iteration of the loop with a frame from the camera (lines 535-546); detected
\* tells whether detect_emotion, when it is called, finds an emotion, and duration
\* how long it takes.  The iteration ends with the sleep of line 546.
CameraLoopIteration(detected, duration) ==
    /\ faces # <<>> /\ now < MaxTime /\ recorded < MaxDetections
    /\ IF DetectionDue
       THEN /\ last_attempt' = now
            /\ IF detected
               THEN /\ last_detection_time' = now
                    /\ UpdateMoodHistory(FaceAt(recorded + 1).emotion,
                                         FaceAt(recorded + 1).confidence)
               ELSE UNCHANGED <<last_detection_time, mood_history, recorded>>
            /\ now' = now + duration + 1
       ELSE /\ UNCHANGED <<last_attempt, last_detection_time, mood_history, recorded>>
            /\ now' = now + 1
    /\ UNCHANGED <<engine, pc, call, out, prev, camera, feedback, faces>>

CameraLoop ==
    \E detected \in BOOLEAN, duration \in DetectDurations :
        CameraLoopIteration(detected, duration)

LoopNext == OpenSession \/ CameraLoop

LoopSpec == Init /\ [][LoopNext]_vars

-----------------------------------------------------------------------------
(* The dashboard: feedback of several sessions on one file (src/app.py) *)

\* the sessions handle at most this many clicks together
MaxClicks == 3

FeedbackTypes == {"like", "dislike"}

RECURSIVE ClicksOn(_)
\* the like and dislike clicks handled so far on the playlists of the set ps
ClicksOn(ps) ==
    IF ps = {} THEN 0
    ELSE LET p == CHOOSE x \in ps : TRUE
         IN  handled[p].likes + handled[p].dislikes + ClicksOn(ps \ {p})
\* the clicks handled or being handled
ClicksStarted ==
    ClicksOn(PlaylistIds) + Cardinality({s \in Sessions : session_pc[s] = "loaded"})

\* load_feedback_from_file, lines 266-273, at the top of the script run that a click
\* on a feedback button of session s starts (main, line 372)
LoadFeedbackFromFile(s, playlist_id, feedback_type) ==
    /\ session_pc[s] = "idle" /\ ClicksStarted < MaxClicks
    /\ user_feedback' = [user_feedback EXCEPT ![s] =
                            IF feedback_file.exists THEN feedback_file.content ELSE @]
    /\ click' = [click EXCEPT ![s] =
                    [playlist_id |-> playlist_id, feedback_type |-> feedback_type]]
    /\ session_pc' = [session_pc EXCEPT ![s] = "loaded"]
    /\ UNCHANGED <<engine, pc, call, out, prev, camera, session, feedback_file, handled>>

\* the counts of a playlist after a click, lines 253-256
Counted(counts, feedback_type) ==
    IF feedback_type = "like" THEN [counts EXCEPT !.likes = @ + 1]
    ELSE IF feedback_type = "dislike" THEN [counts EXCEPT !.dislikes = @ + 1]
    ELSE counts

\* handle_user_feedback up to its call of save_feedback_to_file, lines 250-256
HandleUserFeedback(s) ==
    /\ session_pc[s] = "loaded"
    /\ LET playlist_id == click[s].playlist_id
           feedback_type == click[s].feedback_type
           counts == Get(user_feedback[s], playlist_id, [likes |-> 0, dislikes |-> 0])
       IN  /\ user_feedback' =
                 [user_feedback EXCEPT ![s] =
                     Merge(@, [x \in {playlist_id} |-> Counted(counts, feedback_type)])]
           /\ handled' = [handled EXCEPT ![playlist_id] = Counted(@, feedback_type)]
    /\ session_pc' = [session_pc EXCEPT ![s] = "handled"]
    /\ UNCHANGED <<engine, pc, call, out, prev, camera, session, feedback_file, click>>

\* save_feedback_to_file, lines 259-264, which ends handle_user_feedback (line 258)
SaveFeedbackToFile(s) ==
    /\ session_pc[s] = "handled"
    /\ feedback_file' = [exists |-> TRUE, content |-> user_feedback[s]]
    /\ click' = [click EXCEPT ![s] = NoCall]
    /\ session_pc' = [session_pc EXCEPT ![s] = "idle"]
    /\ UNCHANGED <<engine, pc, call, out, prev, camera, session, user_feedback, handled>>

Load ==
    \E s \in Sessions, playlist_id \in PlaylistIds, feedback_type \in FeedbackTypes :
        LoadFeedbackFromFile(s, playlist_id, feedback_type)
Handle == \E s \in Sessions : HandleUserFeedback(s)
Save == \E s \in Sessions : SaveFeedbackToFile(s)

FeedbackNext == Load \/ Handle \/ Save

FeedbackSpec == Init /\ [][FeedbackNext]_vars

-----------------------------------------------------------------------------
(* Vocabulary of the properties *)

\* a get_recommended_playlists call has returned to its caller
Returned == pc = "returned" /\ call.op = "get_recommended_playlists"

IsPrefix(s, t) == Len(s) <= Len(t) /\ s = SubSeq(t, 1, Len(s))

\* the source of an entry as every reader of the repository takes it:
\* p.get('source', 'Default') (recommendation.py line 289, app.py lines 618 and 700)
SourceOf(p) == Get(p, "source", "Default")

DistinctIds(s) == \A i, j \in 1..Len(s) : i # j => s[i].id # s[j].id

\* the emotion and the language the engine works with
CallEmotion == IF call.emotion \in KnownEmotions THEN call.emotion ELSE "neutral"
CallLanguage == LanguageNormalize(call.language)

\* the catalog's entries for the call, in catalog order
LocalizedEntries ==
    IF CallLanguage \in DOMAIN default_playlists_by_language
       /\ CallEmotion \in DOMAIN default_playlists_by_language[CallLanguage]
    THEN default_playlists_by_language[CallLanguage][CallEmotion]
    ELSE <<>>
GenericEntries == default_playlists[CallEmotion]

\* the k-th provider request of the call was answered by an exception
RequestRaised(k) == OracleAt(call.oracle, k).raises # None
\* the ids of the items that answered the k-th request
AnsweredIds(k) ==
    LET items == ResponseItems(OracleAt(call.oracle, k).results)
    IN  {Get(items[i], "id", None) : i \in 1..Len(items)} \ {None}
\* two queries of the search pass were answered with a common id
SearchOverlap ==
    \E i, j \in 1..out.n_search :
        /\ i < j
        /\ ~RequestRaised(i) /\ ~RequestRaised(j)
        /\ AnsweredIds(i) \cap AnsweredIds(j) # {}

\* where an entry of a result comes from
GroupOf(p) ==
    IF Get(p, "source", None) = "Spotify" THEN "provider"
    ELSE IF \E i \in 1..Len(LocalizedEntries) : LocalizedEntries[i].name = p.name
         THEN "localized" ELSE "generic"
\* an entry without what the enrichment pass may have filled in
Stub(p) == [name |-> p.name, group |-> GroupOf(p)]
Stubs(s) == [i \in 1..Len(s) |-> Stub(s[i])]

-----------------------------------------------------------------------------
(* C1 .. C30 *)

\* C1: for every limit >= 1 the call returns exactly the first min(limit, n) entries
\* of the list it assembled (n its length), so never more than limit entries.
C1_ResultIsLimitPrefix ==
    Returned /\ call.limit >= 1 =>
        /\ out.raised = None
        /\ out.result = SubSeq(out.playlists, 1, Min(call.limit, Len(out.playlists)))
        /\ Len(out.result) <= call.limit
C1_Witness ==
    /\ Returned /\ call.limit >= 1 /\ ProviderEnabled
    /\ out.found # <<>>
    /\ Len(out.playlists) > call.limit
    /\ Len(out.result) = call.limit

\* C2: for every limit <= 0 the call returns an empty sequence.
C2_NonPositiveLimitGivesEmpty ==
    Returned /\ call.limit <= 0 => out.result = <<>>

\* C3: a call with an emotion outside the seven known labels issues the same provider
\* requests and returns the same result as the call with 'neutral' and the same limit,
\* language, configuration state and provider behaviour.
C3_UnknownEmotionIsNeutral ==
    Returned /\ call.emotion \notin KnownEmotions =>
        LET neutral == Recommend("neutral", call.limit, call.language, call.oracle)
        IN  /\ out.requests = neutral.requests
            /\ out.result = neutral.result
            /\ out.raised = neutral.raised
C3_Witness ==
    /\ Returned /\ call.emotion \notin KnownEmotions /\ ProviderEnabled
    /\ out.found # <<>>
    /\ Len(out.requests) > out.n_search
    /\ \E i \in 1..Len(out.result) : out.result[i].name = "Lo-Fi Beats"

\* C4: with the provider unconfigured and limit > 0, the result is a prefix of the
\* localized static entries for (normalized language, emotion) in catalog order
\* followed by the generic static entries for the emotion in catalog order.
C4_StaticOnlyLocalizedThenGeneric ==
    Returned /\ ~ProviderEnabled /\ call.limit > 0 =>
        /\ IsPrefix(out.result, LocalizedEntries \o GenericEntries)
        /\ Len(out.result) = Min(call.limit, Len(LocalizedEntries \o GenericEntries))
C4_Witness ==
    /\ Returned /\ ~ProviderEnabled
    /\ call.emotion = "sad" /\ call.language = "telugu" /\ call.limit = MaxLimit
    /\ out.result[1] = [name |-> "Telugu Melodies", id |-> "37i9dQZF1DX8HU1L2vQ4dH"]
    /\ out.result[2] = [name |-> "Chill Vibes", id |-> "37i9dQZF1DX4WYpdgoIcn6"]

C6_RepeatedCallSameResult ==
    Returned /\ prev # NoCall /\ ~ProviderEnabled =>
        /\ prev.call.emotion = call.emotion
        /\ prev.call.limit = call.limit
        /\ prev.call.language = call.language
        /\ out.result = prev.out.result
C6_Witness ==
    /\ Returned /\ prev # NoCall /\ ~ProviderEnabled
    /\ CallLanguage = "telugu" /\ Len(out.result) >= 2

\* C7 as stated: when the provider returns overlapping ids across the queries of one
\* search pass, the final list contains each id at most once.
C7_FinalListIdsDistinct ==
    Returned /\ SearchOverlap => DistinctIds(out.result)
\* C7 as amended: when the provider returns overlapping ids across the queries of one
\* search pass, the list gathered by that search pass contains each id at most once.
C7_GatheredIdsDistinct ==
    Returned /\ SearchOverlap => DistinctIds(out.gathered) /\ DistinctIds(out.found)
C7_Witness ==
    /\ Returned /\ SearchOverlap
    /\ out.n_search >= 2
    /\ Len(out.found) >= 2

\* C8 as stated: in every result the localized static entries come first, then the
\* provider search entries, then the generic static entries.
C8_LocalizedProviderGeneric ==
    Returned =>
        \A i, j \in 1..Len(out.result) :
            i < j => <<GroupOf(out.result[i]), GroupOf(out.result[j])>> \in
                        { <<"localized", "localized">>, <<"localized", "provider">>,
                          <<"localized", "generic">>, <<"provider", "provider">>,
                          <<"provider", "generic">>, <<"generic", "generic">> }
\* C8 as amended: in every result the provider search entries come first, then the
\* localized static entries, then the generic static entries, each group in its
\* source order (gathering order, catalog order).
C8_ProviderLocalizedGeneric ==
    Returned =>
        IsPrefix(Stubs(out.result),
                 Stubs(out.found) \o Stubs(LocalizedEntries) \o Stubs(GenericEntries))
C8_Witness ==
    /\ Returned /\ Len(out.result) = 3
    /\ GroupOf(out.result[1]) = "provider"
    /\ GroupOf(out.result[2]) = "localized"
    /\ GroupOf(out.result[3]) = "generic"

\* C9: with the provider configured, if every provider request of a call raises, the
\* call raises nothing and returns what the same call returns unconfigured.
C9_AllRequestsRaiseGivesStatic ==
    Returned /\ ProviderEnabled
             /\ (\A k \in 1..Len(out.requests) : RequestRaised(k)) =>
        /\ out.raised = None
        /\ out.result =
              RecommendAs(FALSE, call.emotion, call.limit, call.language, call.oracle).result
C9_Witness ==
    /\ Returned /\ ProviderEnabled
    /\ Len(out.requests) = 2
    /\ \A k \in 1..Len(out.requests) : RequestRaised(k)
    /\ out.search_exc # None /\ out.enrich_exc # None
    /\ Len(out.result) = 3

\* C10: whatever each provider request does (items, an empty or malformed response,
\* an exception), the call returns a list and lets no exception through.
C10_NoProviderFailureLeaks ==
    Returned => out.raised = None /\ IsPrefix(out.result, out.playlists)
C10_Witness ==
    /\ Returned /\ ProviderEnabled
    /\ out.search_exc = None /\ out.found # <<>>
    /\ out.enrich_exc # None
    /\ out.raised = None

\* C11: while the engine is unconfigured a call issues no provider request, neither
\* in the search pass nor in the enrichment pass, whatever its arguments and whatever
\* setup_spotify calls failed before it.
C11_UnconfiguredIssuesNoRequest ==
    Returned /\ ~spotify_configured => out.requests = <<>> /\ out.n_search = 0
C11_Witness ==
    /\ Returned /\ ~spotify_configured
    /\ spotify_client # NoClient
    /\ call.language = "telugu" /\ call.limit = MaxLimit
    /\ out.requests = <<>> /\ Len(out.result) = MaxLimit

\* the entries of the list the enrichment loop walks (after the search pass) that
\* the loop has to resolve, line 271
ToEnrich ==
    LET searched == PrependFound(out.found, StaticSeed(CallEmotion, call.language))
    IN  {i \in 1..Len(searched) : NeedsEnrichment(searched[i])}
\* the requests of the enrichment pass
EnrichRequests == SubSeq(out.requests, out.n_search + 1, Len(out.requests))

\* C12: a failure while enriching one entry is swallowed for that entry only: the
\* entries enriched before it keep their filled-in fields in the returned list, and
\* the entries after it are still attempted (stated for the limits >= 1 of the
\* contract).
C12_EnrichFailureIsPerEntry ==
    Returned /\ call.limit >= 1 /\ out.enrich_exc # None =>
        /\ \A i \in 1..Len(out.enriched) :
              i <= Len(out.result) => out.result[i] = out.enriched[i]
        /\ Len(EnrichRequests) = Cardinality(ToEnrich)

\* the call names a language that has no localized table and is not 'auto'
UnrecognizedLanguage ==
    /\ Truthy(CallLanguage) /\ CallLanguage # "auto"
    /\ CallLanguage \notin DOMAIN default_playlists_by_language
\* the call with the same emotion, limit and provider behaviour and no language
CallWithoutLanguage == Recommend(call.emotion, call.limit, None, call.oracle)

\* C13: a call with an unrecognized language ('french', 'bangla') issues the same
\* provider requests and returns the same result as the call with no language, in
\* both configuration states (stated for the limits >= 1 of the contract).
C13_UnrecognizedLanguageIsNoPreference ==
    Returned /\ call.limit >= 1 /\ UnrecognizedLanguage =>
        /\ out.requests = CallWithoutLanguage.requests
        /\ out.result = CallWithoutLanguage.result

\* C14: a call with language 'auto' issues the same provider requests (one
\* '{emotion} {mood} music' query in the search pass) and returns the same result as
\* the call with no language, in both configuration states (stated for the limits
\* >= 1 of the contract).
C14_AutoIsNoLanguage ==
    Returned /\ call.limit >= 1 /\ call.language = "auto" =>
        /\ out.requests = CallWithoutLanguage.requests
        /\ out.result = CallWithoutLanguage.result
        /\ out.n_search <= 1

\* the canonical spelling of the variant spellings among the language inputs
CanonicalSpelling ==
    [x \in {" Telegu ", "TAMIL", "hindhi"} |->
        CASE x = " Telegu " -> "telugu" [] x = "TAMIL" -> "tamil" [] x = "hindhi" -> "hindi"]

\* C15: a call with a variant spelling of a supported language (alias, other letter
\* case, surrounding whitespace) works, for every emotion, with the localized
\* defaults the catalog holds under the canonical spelling.
C15_VariantSpellingSameLocalizedDefaults ==
    Returned /\ call.language \in DOMAIN CanonicalSpelling =>
        LET canonical == CanonicalSpelling[call.language]
        IN  /\ canonical \in DOMAIN default_playlists_by_language
            /\ out.lang_defaults =
                  Get(default_playlists_by_language[canonical], CallEmotion, <<>>)
            /\ out.lang_defaults =
                  Recommend(call.emotion, call.limit, canonical, call.oracle).lang_defaults
C15_Witness ==
    /\ Returned /\ call.language = " Telegu " /\ call.emotion = "sad"
    /\ out.lang_defaults = <<[name |-> "Telugu Melodies", id |-> "37i9dQZF1DX8HU1L2vQ4dH"]>>
    /\ Len(out.result) >= 1 /\ ~ProviderEnabled
    /\ out.result[1].name = "Telugu Melodies"

\* a setup_spotify call has returned to its caller
SetupReturned == pc = "returned" /\ call.op = "setup_spotify"
\* the setup_spotify call had an empty credential or its connectivity probe raised
SetupFailing(c) ==
    ~Truthy(c.client_id) \/ ~Truthy(c.client_secret) \/ c.probe # None

\* C16: setup_spotify returns False whenever a credential is empty or the probe
\* raises, and such a call leaves the configuration state as it found it; it returns
\* True only in a call that sets the engine configured.
C16_SetupFailsWithoutConfiguring ==
    [][ pc = "idle" /\ call'.op = "setup_spotify" =>
           /\ SetupFailing(call') =>
                 out'.ret = FALSE /\ spotify_configured' = spotify_configured
           /\ out'.ret = TRUE => spotify_configured' /\ ~SetupFailing(call') ]_vars
C16_Witness ==
    /\ SetupReturned /\ call.probe # None
    /\ Truthy(call.client_id) /\ Truthy(call.client_secret)
    /\ out.ret = FALSE
    /\ ~spotify_configured /\ spotify_client # NoClient

\* C17: the engine starts unconfigured, and once configured it stays configured under
\* every later setup_spotify call (succeeding or failing) and every later
\* get_recommended_playlists call (whatever the provider does).
C17_ConfiguredIsOneWay ==
    /\ ~spotify_configured
    /\ [][spotify_configured => spotify_configured']_vars
C17_Witness ==
    /\ spotify_configured
    /\ \/ SetupReturned /\ SetupFailing(call) /\ out.ret = FALSE
       \/ Returned /\ out.search_exc # None /\ out.enrich_exc # None

\* C18: in every entry of every result, a url that is present is the provider link
\* of the entry's own id.
C18_UrlIsLinkOfOwnId ==
    Returned =>
        \A i \in 1..Len(out.result) :
            Truthy(Get(out.result[i], "url", None)) =>
                out.result[i].url = PlaylistUrl(Get(out.result[i], "id", None))

\* C19: the static catalog and the emotion taxonomy are, after any sequence of
\* get_recommended_playlists and setup_spotify calls, what __init__ made them.
C19_CatalogUnchanged ==
    /\ emotion_to_genre = InitEmotionToGenre
    /\ default_playlists = InitDefaultPlaylists
    /\ default_playlists_by_language = InitDefaultPlaylistsByLanguage
C19_Witness ==
    /\ Returned /\ ProviderEnabled /\ out.enrich_exc = None
    /\ \E i \in 1..Len(out.result) :
          /\ GroupOf(out.result[i]) = "generic"
          /\ Truthy(Get(out.result[i], "url", None))
    /\ \E i \in 1..Len(out.result) :
          /\ GroupOf(out.result[i]) = "localized"
          /\ Truthy(Get(out.result[i], "url", None))

\* a stop_camera call has returned to its caller
StopReturned == pc = "returned" /\ call.op = "stop_camera"

\* C20: on a CameraHandler in any state (never started, started, already stopped)
\* stop_camera completes without error, and afterwards is_camera_active() is False,
\* get_frame() returns None and get_camera_info() returns the default (640, 480).
C20_StopCameraLeavesHandlerInactive ==
    StopReturned =>
        /\ out.raised = None
        /\ is_camera_active = FALSE
        /\ \A read \in ReadOutcomes : get_frame(read) = None
        /\ get_camera_info = <<640, 480>>
C20_Witness ==
    /\ StopReturned
    /\ call.self.is_running /\ call.self.cap # NoCapture
    /\ call.self.cap.opened /\ call.self.cap.resolution # DefaultResolution
    /\ call.self.cap.index \in webcams

\* the fields the enrichment pass may write into an entry, lines 284-291
EnrichedFields == {"id", "url", "tracks_total", "source", "language"}
\* e is the entry b, as it is or with what the enrichment pass filled in
FilledFrom(b, e) ==
    \/ e = b
    \/ /\ DOMAIN e = DOMAIN b \cup EnrichedFields
       /\ \A k \in DOMAIN b \ EnrichedFields : e[k] = b[k]
       /\ Truthy(e.url)
\* the static seed of the call, from the catalog
SeedEntries == LocalizedEntries \o GenericEntries

\* C21: when the search pass succeeds and gathers k < limit provider entries, the
\* returned list is those k entries in gathered order followed by the first
\* limit - k static entries (all of them when there are fewer), each entry as it is
\* or with what the enrichment pass filled in; it is exactly that list when the
\* enrichment pass changes nothing.
C21_ProviderEntriesThenStaticFiller ==
    Returned /\ ProviderEnabled /\ out.search_exc = None
             /\ Len(out.gathered) < call.limit =>
        LET k == Len(out.gathered)
            filler == SubSeq(SeedEntries, 1, Min(call.limit - k, Len(SeedEntries)))
            expected == out.gathered \o filler
        IN  /\ Len(out.result) = Len(expected)
            /\ \A i \in 1..Len(expected) : FilledFrom(expected[i], out.result[i])
            /\ out.enrich_exc # None => out.result = expected
C21_Witness ==
    /\ Returned /\ ProviderEnabled /\ out.search_exc = None
    /\ Len(out.gathered) = 2 /\ call.limit = 3
    /\ Len(LocalizedEntries) = 1
    /\ out.result[1] = out.gathered[1]
    /\ out.result[3] # LocalizedEntries[1] /\ FilledFrom(LocalizedEntries[1], out.result[3])

\* the result holds an entry of the localized defaults of the call
HasLocalizedEntry == \E i \in 1..Len(out.result) : GroupOf(out.result[i]) = "localized"

CallQueries ==
    LET info == emotion_to_genre[CallEmotion]
        lang == CallLanguage
    IN  IF Truthy(lang)
        THEN <<lang \o " " \o info.mood \o " music", lang \o " " \o CallEmotion \o " playlist",
               lang \o " " \o info.genres[1] \o " playlist",
               lang \o " " \o info.genres[2] \o " playlist">>
        ELSE <<CallEmotion \o " " \o info.mood \o " music">>
\* the ids the provider answered to the first j requests of the call
AnsweredUpTo(j) == UNION {AnsweredIds(i) : i \in 1..j}

\* C23: in the search pass the queries are executed in list order, no id is gathered
\* twice, at most limit entries are gathered (limit >= 1), and no query is issued
\* once limit entries are gathered.
C23_SearchPassOrderDedupQuota ==
    Returned /\ ProviderEnabled /\ call.limit >= 1 =>
        /\ out.n_search <= Len(CallQueries)
        /\ \A i \in 1..out.n_search : out.requests[i].q = CallQueries[i]
        /\ DistinctIds(out.gathered)
        /\ Len(out.gathered) <= call.limit
        /\ \A j \in 1..(out.n_search - 1) :
              ~RequestRaised(j) /\ Cardinality(AnsweredUpTo(j)) < call.limit
        /\ out.n_search < Len(CallQueries) =>
              \/ out.search_exc # None
              \/ Len(out.gathered) = call.limit
C23_Witness ==
    /\ Returned /\ ProviderEnabled /\ call.limit = 3
    /\ Len(CallQueries) = 4 /\ out.n_search = 2
    /\ Cardinality(AnsweredIds(1) \cap AnsweredIds(2)) = 2
    /\ Len(out.gathered) = 3

\* C24: if a query of the search pass raises, the returned list holds no entry
\* gathered by that search pass, not even one gathered by an earlier query of the
\* call that succeeded; it is built from the static seed only, each entry as it is or
\* with what the enrichment pass filled in.
C24_RaisedSearchPassContributesNothing ==
    Returned /\ out.search_exc # None =>
        LET expected == PySlice(SeedEntries, call.limit)
        IN  /\ out.found = <<>>
            /\ \A i \in 1..Len(out.result) : GroupOf(out.result[i]) # "provider"
            /\ Len(out.result) = Len(expected)
            /\ \A i \in 1..Len(expected) : FilledFrom(expected[i], out.result[i])
C24_Witness ==
    /\ Returned /\ out.search_exc # None
    /\ out.n_search = 2 /\ Len(out.gathered) = 2
    /\ call.limit = 3 /\ Len(out.result) = 3
    /\ Len(out.requests) > out.n_search

\* the list the enrichment pass walks: the provider entries put ahead of the seed
Assembled == out.found \o SeedEntries
\* the positions of the assembled list whose entry has no url
LackingUrl == {i \in 1..Len(Assembled) : ~Truthy(Get(Assembled[i], "url", None))}
\* the j-th of them
NthLackingUrl(j) ==
    CHOOSE i \in LackingUrl : Cardinality({m \in LackingUrl : m < i}) = j - 1

\* C25: the enrichment pass issues at most one provider request per entry of the
\* assembled list that lacks a url, in list order, and none for an entry that has a
\* url; an entry that has a url is returned unchanged.
C25_OneEnrichRequestPerEntryLackingUrl ==
    Returned /\ ProviderEnabled =>
        /\ Len(EnrichRequests) <= Cardinality(LackingUrl)
        /\ \A j \in 1..Len(EnrichRequests) :
              LET name == Assembled[NthLackingUrl(j)].name
              IN  /\ EnrichRequests[j].q \in {name, CallLanguage \o " " \o name}
                  /\ EnrichRequests[j].limit = 1
        /\ \A i \in 1..Len(out.result) :
              i \notin LackingUrl => out.result[i] = Assembled[i]
C25_Witness ==
    /\ Returned /\ ProviderEnabled /\ out.enrich_exc = None
    /\ Len(out.found) = 2 /\ call.limit = 3
    /\ 1 \notin LackingUrl /\ 2 \in LackingUrl
    /\ Len(EnrichRequests) = Cardinality(LackingUrl)
    /\ out.result[2] # Assembled[2]

\* C26: a setup_spotify call that returns False leaves the engine as it found it:
\* the configured flag and the held provider session are unchanged.
C26_FailedSetupLeavesEngineUnchanged ==
    [][ pc = "idle" /\ call'.op = "setup_spotify" /\ out'.ret = FALSE =>
           /\ spotify_configured' = spotify_configured
           /\ spotify_client' = spotify_client ]_vars

\* C29: after any sequence of start_camera and stop_camera calls, is_camera_active()
\* is True only if the capture the handler holds is open, i.e. only if the most
\* recent start_camera succeeded and no stop_camera followed it.
C29_ActiveOnlyIfCaptureOpen ==
    /\ is_camera_active => cap.opened
    /\ pc = "returned" /\ call.op = "start_camera" /\ out.ret = FALSE => ~is_camera_active

\* C27: after any sequence of update_mood_history calls, mood_history holds at most
\* 50 entries and equals, in order, the most recent min(n, 50) of the n recorded
\* detections.
C27_MoodHistoryIsLastFifty ==
    faces # <<>> =>
        /\ Len(mood_history) <= 50
        /\ Len(mood_history) = Min(recorded, 50)
        /\ \A j \in 1..Len(mood_history) :
              LET n == recorded - Len(mood_history) + j
              IN  mood_history[j] = [emotion |-> FaceAt(n).emotion,
                                     confidence |-> FaceAt(n).confidence,
                                     timestamp |-> FirstTime + n - 1]
C27_Witness ==
    /\ recorded = 52 /\ Len(mood_history) = 50
    /\ mood_history[1].timestamp = FirstTime + 2
    /\ mood_history[50].timestamp = FirstTime + 51
    /\ \E j \in 1..49 : mood_history[j].emotion # mood_history[j + 1].emotion

\* C28: in the camera loop two consecutive detect_emotion calls are more than 2
\* seconds apart, whether or not the earlier call detected an emotion.
C28_DetectAttemptsTwoSecondsApart ==
    [][ last_attempt' # last_attempt /\ last_attempt # NoAttempt =>
           last_attempt' - last_attempt > DetectionInterval ]_vars

\* the counts user_feedback.json holds for a playlist
Persisted(p) ==
    IF feedback_file.exists
    THEN Get(feedback_file.content, p, [likes |-> 0, dislikes |-> 0])
    ELSE [likes |-> 0, dislikes |-> 0]

\* C30: with several sessions sharing user_feedback.json, each handling a click as
\* load_feedback_from_file, handle_user_feedback, save_feedback_to_file, under every
\* interleaving the persisted like and dislike counts of each playlist equal the
\* numbers of like and dislike clicks handled across all sessions, once no click is
\* being handled.
C30_NoFeedbackUpdateLost ==
    (\A s \in Sessions : session_pc[s] = "idle") =>
        \A p \in PlaylistIds : Persisted(p) = handled[p]

====
